---- MODULE Spec2Model ----
(***************************************************************************)
(* Shipping-quote aggregation of the checkout router: the three carrier    *)
(* clients (AusPost domestic, AusPost international, Interparcel) and the  *)
(* selection policy of checkoutRouter.getShippingServices.                 *)
(***************************************************************************)
EXTENDS Integers, Sequences, FiniteSets, TLC

VARIABLES
    input,                \* the validated request (getShippingServicesInputSchema)
    ctx,                  \* the context of the request: ctx.session
    isAdmin,              \* ctx.session?.user?.isAdmin ?? false
    pc,                   \* position of the getShippingServices handler
    shippingServices,     \* handler local
    interparcelServices,  \* handler local
    result,               \* what the handler returned or threw
    calls,                \* the carrier clients invoked so far, in order
    data,                 \* the response an AusPost client parses
    postResult,           \* what the AusPost client returned or threw
    ipPc,                 \* position inside getInterparcelShippingServices
    availData,            \* shippingServicesAvailableData.services
    hop,                  \* the loop counter i of the redirect loop
    cookieJar,            \* cookieJar, in insertion order
    quotePageHtml,        \* quotePageHtml
    cookieHeader,         \* cookieHeader sent with the quote calls
    csrfToken,            \* csrfToken sent with the quote calls
    requests,             \* the services a quote call was issued for
    ipResult,             \* what getInterparcelShippingServices returned or threw
    settled,              \* availableServices: per request, pending or its value
    answers,              \* history: what the quote endpoint answered each request
    fetches,              \* history: the fetches the client issued, in order
    cookieLog,            \* history: the cookies the server set, the headers sent
    current,              \* the invocation of the client the event loop runs
    suspended,            \* the locals of the invocations waiting at an await
    served                \* history: per invocation, what its responses carried

vars == <<input, ctx, isAdmin, pc, shippingServices, interparcelServices, result,
          calls, data, postResult, ipPc, availData, hop, cookieJar, quotePageHtml, cookieHeader,
          csrfToken, requests, ipResult, settled, answers, fetches, cookieLog,
          current, suspended, served>>

ipVars == <<ipPc, availData, hop, cookieJar, quotePageHtml, cookieHeader,
            csrfToken, requests, ipResult>>

\* the variables the handler's specification leaves alone
auxVars == <<settled, answers, fetches, cookieLog, current, suspended, served>>

(***************************************************************************)
(* Program constants.                                                      *)
(***************************************************************************)
HeavyWeight == 20
DimensionLimit == 105
MaxOptions == 4
MaxQuotes == 4
HopLimit == 5
PaddedAbove == 35
PalletWeight == 35

(***************************************************************************)
(* Bounds of the model.                                                    *)
(***************************************************************************)
MaxServices == 4      \* candidate services in an availability response
MaxSpecial == 1       \* of which deny-listed or B2B-named
MaxPostal == 3        \* services in an AusPost response
MaxOversized == 1     \* dimensions of a request that reach DimensionLimit
MaxCandidates == 5    \* services of an availability response, quote calls in flight
MaxInvocations == 2   \* invocations of the Interparcel client running at once
MaxCookies == 2       \* Set-Cookie headers of one response

(***************************************************************************)
(* Values.                                                                 *)
(***************************************************************************)
Ok(v) == [ok |-> TRUE, value |-> v, error |-> ""]
Err(e) == [ok |-> FALSE, value |-> <<>>, error |-> e]
None == [ok |-> FALSE, value |-> <<>>, error |-> "pending"]

SeqsUpTo(S, n) == UNION {[1..k -> S] : k \in 0..n}

\* Array.prototype.slice(0, n)
Slice0(s, n) == IF Len(s) <= n THEN s ELSE SubSeq(s, 1, n)

\* Array.prototype.find, from the elements that pass its test: <<element>>
\* when there is one, <<>> for undefined
FirstOf(hits) == IF hits = <<>> THEN <<>> ELSE <<Head(hits)>>

(***************************************************************************)
(* Prices.  A price is the decimal text the provider sends.  Number(p)*100 *)
(* is computed in IEEE-754 binary64: the product is given by its integer   *)
(* part and by whether it is that integer exactly.                         *)
(*   8.95 * 100 = 894.9999999999999      1.10 * 100 = 110.00000000000001   *)
(***************************************************************************)
Prices == {"8.95", "1.10"}
PriceTexts == Prices \cup {""}

NumberTimes100(p) ==
    CASE p = "8.95" -> [floor |-> 894, exact |-> FALSE]
      [] p = "1.10" -> [floor |-> 110, exact |-> FALSE]
      [] p = ""     -> [floor |-> 0, exact |-> TRUE]

MathCeil(x) == IF x.exact THEN x.floor ELSE x.floor + 1

\* Math.ceil(Number(price) * 100)
CeilCents(p) == MathCeil(NumberTimes100(p))

StripeOption(name, amount, currency) ==
    [display_name |-> name, amount |-> amount, currency |-> currency]

pickupShippingOption == StripeOption("Pickup from Parted Euro", 0, "aud")

adminShippingOption == StripeOption("Admin Shipping", 1, "aud")

(***************************************************************************)
(* AusPost domestic.                                                       *)
(***************************************************************************)
DomesticCodes == {"AUS_PARCEL_REGULAR", "AUS_PARCEL_EXPRESS", "AUS_PARCEL_COURIER"}

DomesticService == [code : DomesticCodes, price : PriceTexts]

\* what fetch + json() yield: a thrown error, or the parsed service list
DomesticResponses ==
    {[threw |-> TRUE, service |-> <<>>]} \cup
    {[threw |-> FALSE, service |-> s] : s \in SeqsUpTo(DomesticService, MaxPostal)}

\* data.services.service.find((service) => service.code === code)?.price
PriceOfCode(service, code) ==
    LET IsCode(s) == s.code = code
        found == FirstOf(SelectSeq(service, IsCode))
    IN  IF found = <<>> THEN <<>> ELSE <<found[1].price>>

\* !x for x: string | undefined
Falsy(x) == x = <<>> \/ x[1] = ""

\* mutant: the two options are returned Express first
getDomesticShippingServices_ExpressFirst(res) ==
    IF res.threw THEN Err("fetch failed")
    ELSE LET express == PriceOfCode(res.service, "AUS_PARCEL_EXPRESS")
             regular == PriceOfCode(res.service, "AUS_PARCEL_REGULAR")
         IN  IF Falsy(express) \/ Falsy(regular)
             THEN Err("Shipping not available")
             ELSE Ok(<<StripeOption("AusPost Express", CeilCents(express[1]), "AUD"),
                       StripeOption("AusPost Regular", CeilCents(regular[1]), "AUD")>>)

getDomesticShippingServices(res) ==
    IF res.threw THEN Err("fetch failed")
    ELSE LET express == PriceOfCode(res.service, "AUS_PARCEL_EXPRESS")
             regular == PriceOfCode(res.service, "AUS_PARCEL_REGULAR")
         IN  IF Falsy(express) \/ Falsy(regular)
             THEN Err("Shipping not available")
             ELSE Ok(<<StripeOption("AusPost Regular", CeilCents(regular[1]), "AUD"),
                       StripeOption("AusPost Express", CeilCents(express[1]), "AUD")>>)

(***************************************************************************)
(* AusPost international.                                                  *)
(***************************************************************************)
supportedShippingMethods == {"Standard", "Express"}

InternationalNames == {"Standard", "Express", "Economy"}

InternationalService == [name : InternationalNames, price : Prices]

InternationalResponses ==
    {[threw |-> TRUE, service |-> <<>>]} \cup
    {[threw |-> FALSE, service |-> s] : s \in SeqsUpTo(InternationalService, MaxPostal)}

\* mutant: the allow-list filter is left out
getAusPostInternationalShippingServices_NoFilter(res) ==
    IF res.threw THEN Err("fetch failed")
    ELSE Ok([k \in 1..Len(res.service) |->
               StripeOption(res.service[k].name, CeilCents(res.service[k].price), "AUD")])

\* mutant: an empty filtered list is turned into a failure
getAusPostInternationalShippingServices_ThrowOnEmpty(res) ==
    IF res.threw THEN Err("fetch failed")
    ELSE LET mapped == [k \in 1..Len(res.service) |->
                          StripeOption(res.service[k].name,
                                       CeilCents(res.service[k].price), "AUD")]
             Supported(o) == o.display_name \in supportedShippingMethods
         IN  IF SelectSeq(mapped, Supported) = <<>>
             THEN Err("Shipping not available")
             ELSE Ok(SelectSeq(mapped, Supported))

getAusPostInternationalShippingServices(res) ==
    IF res.threw THEN Err("fetch failed")
    ELSE LET mapped == [k \in 1..Len(res.service) |->
                          StripeOption(res.service[k].name,
                                       CeilCents(res.service[k].price), "AUD")]
             Supported(o) == o.display_name \in supportedShippingMethods
         IN  Ok(SelectSeq(mapped, Supported))

(***************************************************************************)
(* Interparcel.  A service name is the text of service.service, kept as    *)
(* its characters so that includes() and toLowerCase() are computed.       *)
(***************************************************************************)
PlainName == <<"T", "N", "T">>
HunterName == <<"H", "u", "n", "t", "e", "r">>
B2BName == <<"B", "2", "B">>

ServiceNames == {PlainName, HunterName, B2BName}

\* String.prototype.toLowerCase, on the characters the names use
LowerChar(c) ==
    CASE c = "T" -> "t" [] c = "N" -> "n" [] c = "H" -> "h" [] c = "B" -> "b"
      [] OTHER -> c

ToLowerCase(s) == [k \in 1..Len(s) |-> LowerChar(s[k])]

\* String.prototype.includes
Includes(s, needle) ==
    \E off \in 0..(Len(s) - Len(needle)) :
        \A k \in 1..Len(needle) : s[off + k] = needle[k]

\* the availability responses: a thrown fetch, an errorMessage, or services
ServiceLists ==
    {names \in SeqsUpTo(ServiceNames, MaxServices) :
        Cardinality({k \in DOMAIN names : names[k] # PlainName}) <= MaxSpecial}

AvailabilityResponses ==
    {[threw |-> TRUE, errorMessage |-> "", services |-> <<>>],
     [threw |-> FALSE, errorMessage |-> "No services found", services |-> <<>>]} \cup
    {[threw |-> FALSE, errorMessage |-> "",
      services |-> [k \in 1..Len(names) |-> [id |-> k, service |-> names[k]]]] :
        names \in ServiceLists}

\* a response to one GET of the redirect loop
SetCookies == {<<>>, <<[name |-> "PHPSESSID", value |-> "s1"]>>}

\* a page, as the <meta name content> tags it holds
HtmlPages == {<<>>,
              <<[name |-> "viewport", content |-> "width"]>>,
              <<[name |-> "csrf-token", content |-> "tok"]>>}

HopResponses ==
    {[threw |-> TRUE, redirect |-> FALSE, setCookie |-> <<>>, body |-> <<>>]} \cup
    {[threw |-> FALSE, redirect |-> TRUE, setCookie |-> c, body |-> <<>>] :
        c \in SetCookies} \cup
    {[threw |-> FALSE, redirect |-> FALSE, setCookie |-> c, body |-> b] :
        c \in SetCookies, b \in HtmlPages}

\* mutant: a name the jar already holds keeps its first value
SetCookie_KeepFirst(jar, c) ==
    IF \E k \in DOMAIN jar : jar[k].name = c.name THEN jar ELSE Append(jar, c)

\* cookieJar[name] = value, keeping the insertion order of Object.entries
SetCookie(jar, c) ==
    IF \E k \in DOMAIN jar : jar[k].name = c.name
    THEN [k \in DOMAIN jar |-> IF jar[k].name = c.name THEN c ELSE jar[k]]
    ELSE Append(jar, c)

\* the loop over parseSetCookieHeaders(res.headers): names are non-empty (eq > 0)
RECURSIVE StoreCookies(_, _)
StoreCookies(jar, cs) ==
    IF cs = <<>> THEN jar
    ELSE StoreCookies(IF Head(cs).name # "" THEN SetCookie(jar, Head(cs)) ELSE jar,
                      Tail(cs))

\* cookieJar[name], <<>> for undefined
JarGet(jar, name) ==
    LET IsName(c) == c.name = name
        found == FirstOf(SelectSeq(jar, IsName))
    IN  IF found = <<>> THEN <<>> ELSE <<found[1].value>>

\* a ?? b
Coalesce(a, b) == IF a # <<>> THEN a ELSE b

phpSessId(jar) ==
    Coalesce(JarGet(jar, "PHPSESSID"),
    Coalesce(JarGet(jar, "phpsessid"),
    Coalesce(JarGet(jar, "PhpSessId"), JarGet(jar, "phpsessionid"))))

\* quotePageHtml.match(/<meta\s+name=["']csrf-token["']\s+content=["']([^"']+)["']/i)
metaMatch(html) ==
    LET IsToken(m) == m.name = "csrf-token" /\ m.content # ""
        found == FirstOf(SelectSeq(html, IsToken))
    IN  IF found = <<>> THEN <<>> ELSE <<found[1].content>>

\* the two filters on shippingServicesAvailableData.services
NotHunter(service) == ~Includes(service.service, HunterName)

\* mutant: the name is compared as it is written
NotB2B_CaseSensitive(service, b2b) ==
    b2b \/ ~Includes(service.service, ToLowerCase(B2BName))

NotB2B(service, b2b) == b2b \/ ~Includes(ToLowerCase(service.service), ToLowerCase(B2BName))

\* mutant: every candidate is requested a second time
CandidateServices_Twice(services, b2b) ==
    LET KeepB2B(service) == NotB2B(service, b2b)
    IN  SelectSeq(SelectSeq(services, NotHunter), KeepB2B)
          \o SelectSeq(SelectSeq(services, NotHunter), KeepB2B)

CandidateServices(services, b2b) ==
    LET KeepB2B(service) == NotB2B(service, b2b)
    IN  SelectSeq(SelectSeq(services, NotHunter), KeepB2B)

\* the answer to one per-service quote call
QuotedServices == {[carrier |-> "TNT", name |-> "Road", sellPrice |-> "8.95"],
                   [carrier |-> "Toll", name |-> "Priority", sellPrice |-> "1.10"]}

QuoteResponses ==
    {[threw |-> TRUE, ok |-> FALSE, services |-> <<>>],
     [threw |-> FALSE, ok |-> FALSE, services |-> <<>>],
     [threw |-> FALSE, ok |-> TRUE, services |-> <<>>]} \cup
    {[threw |-> FALSE, ok |-> TRUE, services |-> <<q>>] : q \in QuotedServices}

\* the value one request's promise is fulfilled with: <<>> for null
QuoteValue(res) ==
    IF res.threw THEN <<>>
    ELSE IF ~res.ok THEN <<>>
    ELSE IF Len(res.services) = 0 THEN <<>>
    ELSE <<StripeOption(res.services[1].carrier \o " - " \o res.services[1].name,
                        CeilCents(res.services[1].sellPrice), "AUD")>>

\* validServices, from the settled requests in request order
RECURSIVE validServices(_)
validServices(values) ==
    IF values = <<>> THEN <<>>
    ELSE Head(values) \o validServices(Tail(values))

InterparcelResult(values) ==
    IF Len(validServices(values)) = 0
    THEN Err("Unable to ship this item to the destination country")
    ELSE Ok(Slice0(validServices(values), MaxQuotes))

(***************************************************************************)
(* checkoutRouter.getShippingServices: the branches of the handler.        *)
(***************************************************************************)
Weights == {HeavyWeight - 1, HeavyWeight}
Dimensions == {DimensionLimit - 1, DimensionLimit}
Countries == {"AU", "US"}

Inputs ==
    {in \in [weight : Weights, length : Dimensions, width : Dimensions,
             height : Dimensions, destinationCountry : Countries, b2b : BOOLEAN] :
        Cardinality({d \in {"length", "width", "height"} : in[d] >= DimensionLimit})
            <= MaxOversized}

\* ctx.session: <<>> for a caller who is not signed in
NoSession == [session |-> <<>>]
SignedIn(admin) == [session |-> <<[user |-> [isAdmin |-> admin]]>>]

Contexts == {NoSession} \cup {SignedIn(admin) : admin \in BOOLEAN}

\* mutant: every caller who is signed in is taken for an admin
SessionIsAdmin_AnyUser(c) == c.session # <<>>

\* ctx.session?.user?.isAdmin ?? false
SessionIsAdmin(c) == IF c.session = <<>> THEN FALSE ELSE c.session[1].user.isAdmin

\* [width, length, height].every((dimension) => dimension < 105)
AllSmall(in) ==
    \A dimension \in {in.width, in.length, in.height} : dimension < DimensionLimit

\* mutant: the admin option is appended instead of prepended
WithAdmin_Append(admin, services) ==
    IF admin THEN services \o <<adminShippingOption>> ELSE services

WithAdmin(admin, services) ==
    IF admin THEN <<adminShippingOption>> \o services ELSE services

\* mutant: the catch rethrows whatever the destination
HeavyBranch_Rethrow(in, admin, interparcel) ==
    IF ~interparcel.ok
    THEN Err(interparcel.error)
    ELSE LET quoted == IF in.destinationCountry = "AU"
                       THEN interparcel.value \o <<pickupShippingOption>>
                       ELSE interparcel.value
         IN  Ok(WithAdmin(admin, quoted))

\* mutant: the catch swallows whatever the destination
HeavyBranch_Swallow(in, admin, interparcel) ==
    LET quoted == IF in.destinationCountry = "AU"
                  THEN interparcel.value \o <<pickupShippingOption>>
                  ELSE interparcel.value
    IN  Ok(WithAdmin(admin, quoted))

\* mutant: the pickup option is put before the quotes
HeavyBranch_PickupFirst(in, admin, interparcel) ==
    IF ~interparcel.ok /\ in.destinationCountry # "AU"
    THEN Err(interparcel.error)
    ELSE LET quoted == IF in.destinationCountry = "AU"
                       THEN <<pickupShippingOption>> \o interparcel.value
                       ELSE interparcel.value
         IN  Ok(WithAdmin(admin, quoted))

\* if (weight >= 20) { ... }, once getInterparcelShippingServices has settled
HeavyBranch(in, admin, interparcel) ==
    IF ~interparcel.ok /\ in.destinationCountry # "AU"
    THEN Err(interparcel.error)
    ELSE LET quoted == IF in.destinationCountry = "AU"
                       THEN interparcel.value \o <<pickupShippingOption>>
                       ELSE interparcel.value
         IN  Ok(WithAdmin(admin, quoted))

\* mutant: a failure of the awaited client is swallowed
InternationalBranch_Swallow(admin, carrier) ==
    Ok(WithAdmin(admin, carrier.value))

\* if (destinationCountry !== "AU") { ... }, once the awaited client has settled
InternationalBranch(admin, carrier) ==
    IF ~carrier.ok THEN Err(carrier.error)
    ELSE Ok(WithAdmin(admin, carrier.value))

\* mutant: the options of one client are kept only if the other gave some
DomesticBranch_BothOrNeither(admin, shipping, interparcel) ==
    Ok(Slice0(WithAdmin(admin, <<pickupShippingOption>>
                                 \o (IF interparcel = <<>> THEN <<>> ELSE shipping)
                                 \o (IF shipping = <<>> THEN <<>> ELSE interparcel)),
              MaxOptions))

\* mutant: the pickup option is spread after the carrier options
DomesticBranch_PickupLast(admin, shipping, interparcel) ==
    Ok(Slice0(WithAdmin(admin, shipping \o interparcel \o <<pickupShippingOption>>),
              MaxOptions))

\* mutant: the Interparcel quotes are spread before the AusPost options
DomesticBranch_InterparcelFirst(admin, shipping, interparcel) ==
    Ok(Slice0(WithAdmin(admin, <<pickupShippingOption>> \o interparcel \o shipping),
              MaxOptions))

\* the end of the handler, for destinationCountry AU and weight < 20
DomesticBranch(admin, shipping, interparcel) ==
    Ok(Slice0(WithAdmin(admin, <<pickupShippingOption>> \o shipping \o interparcel),
              MaxOptions))

\* mutant: the destination is tested before the weight
FirstCall_DestinationFirst(in) ==
    IF in.destinationCountry # "AU"
    THEN IF AllSmall(in) THEN "intlPost"
         ELSE IF in.weight >= HeavyWeight THEN "heavy" ELSE "intlIP"
    ELSE IF in.weight >= HeavyWeight THEN "heavy"
         ELSE IF AllSmall(in) THEN "domPost" ELSE "oversizeIP"

\* mutant: the two arms of the international dimension test are swapped
FirstCall_SwappedInternational(in) ==
    IF in.weight >= HeavyWeight THEN "heavy"
    ELSE IF in.destinationCountry # "AU"
         THEN IF AllSmall(in) THEN "intlIP" ELSE "intlPost"
         ELSE IF AllSmall(in) THEN "domPost" ELSE "oversizeIP"

\* the branch the handler takes: the await it reaches first
FirstCall(in) ==
    IF in.weight >= HeavyWeight THEN "heavy"
    ELSE IF in.destinationCountry # "AU"
         THEN IF AllSmall(in) THEN "intlPost" ELSE "intlIP"
         ELSE IF AllSmall(in) THEN "domPost" ELSE "oversizeIP"

ClientOf(at) ==
    CASE at = "intlPost" -> "international"
      [] at = "domPost" -> "domestic"
      [] OTHER -> "interparcel"

NoData == [threw |-> FALSE, service |-> <<>>]

IpIdle ==
    /\ ipPc = "idle" /\ availData = <<>> /\ hop = 0 /\ cookieJar = <<>>
    /\ quotePageHtml = <<>> /\ cookieHeader = <<>> /\ csrfToken = ""
    /\ requests = <<>> /\ ipResult = None

NoCookieLog == [latest |-> {}, sent |-> <<>>, known |-> {}]

\* one invocation, nothing in flight, nothing logged
AuxIdle ==
    /\ settled = <<>> /\ answers = <<>> /\ fetches = <<>>
    /\ cookieLog = NoCookieLog
    /\ current = 1 /\ suspended = <<>> /\ served = <<>>

Init ==
    /\ input \in Inputs
    /\ ctx \in Contexts
    /\ isAdmin = SessionIsAdmin(ctx)
    /\ pc = "start"
    /\ shippingServices = <<>>
    /\ interparcelServices = <<>>
    /\ result = None
    /\ calls = <<>>
    /\ data = NoData
    /\ postResult = None
    /\ IpIdle
    /\ AuxIdle

\* getInterparcelShippingServices is entered: its locals are fresh
IpEnter ==
    /\ ipPc' = "availability" /\ availData' = <<>> /\ hop' = 0 /\ cookieJar' = <<>>
    /\ quotePageHtml' = <<>> /\ cookieHeader' = <<>> /\ csrfToken' = ""
    /\ requests' = <<>> /\ ipResult' = None

\* getInterparcelShippingServices returns or throws: its locals are gone
IpLeave(res) ==
    /\ ipPc' = "returned" /\ availData' = <<>> /\ hop' = 0 /\ cookieJar' = <<>>
    /\ quotePageHtml' = <<>> /\ cookieHeader' = <<>> /\ csrfToken' = ""
    /\ requests' = <<>> /\ ipResult' = res

\* the handler runs to its first await
Dispatch ==
    /\ pc = "start"
    /\ pc' = FirstCall(input)
    /\ calls' = Append(calls, ClientOf(FirstCall(input)))
    /\ IF ClientOf(FirstCall(input)) = "interparcel" THEN IpEnter ELSE UNCHANGED ipVars
    /\ UNCHANGED auxVars
    /\ UNCHANGED <<input, ctx, isAdmin, shippingServices, interparcelServices, result,
                   data, postResult>>

\* getAusPostInternationalShippingServices: fetch and json() settle
InternationalPost ==
    /\ pc = "intlPost"
    /\ \E res \in InternationalResponses : data' = res
    /\ pc' = "intlParse"
    /\ UNCHANGED <<input, ctx, isAdmin, shippingServices, interparcelServices, result,
                   calls, postResult>>
    /\ UNCHANGED ipVars
    /\ UNCHANGED auxVars

\* getAusPostInternationalShippingServices returns or throws, to the handler's return
InternationalReturn ==
    /\ pc = "intlParse"
    /\ postResult' = getAusPostInternationalShippingServices(data)
    /\ result' = InternationalBranch(isAdmin, postResult')
    /\ pc' = "done"
    /\ UNCHANGED <<input, ctx, isAdmin, shippingServices, interparcelServices, calls, data>>
    /\ UNCHANGED ipVars
    /\ UNCHANGED auxVars

\* await getDomesticShippingServices(input) in its try, then the next call
DomesticPost ==
    /\ pc = "domPost"
    /\ \E res \in DomesticResponses :
          /\ postResult' = getDomesticShippingServices(res)
          /\ shippingServices' = IF postResult'.ok THEN postResult'.value
                                 ELSE shippingServices
    /\ pc' = "domIP"
    /\ calls' = Append(calls, "interparcel")
    /\ IpEnter
    /\ UNCHANGED <<input, ctx, isAdmin, interparcelServices, result, data>>
    /\ UNCHANGED auxVars

handlerVars == <<input, ctx, isAdmin, pc, shippingServices, interparcelServices, result,
                 calls, data, postResult>>

\* mutant: the errorMessage of the availability response is not looked at
IpAvailabilityOn_IgnoreError(res) ==
    /\ ipPc = "availability"
    /\ IF res.threw THEN IpLeave(Err("fetch failed"))
       ELSE /\ ipPc' = "bootstrap"
            /\ availData' = res.services
            /\ UNCHANGED <<hop, cookieJar, quotePageHtml, cookieHeader, csrfToken,
                           requests, ipResult>>
    /\ UNCHANGED handlerVars

\* the availability call answered res, to the errorMessage check
IpAvailabilityOn(res) ==
    /\ ipPc = "availability"
    /\ IF res.threw THEN IpLeave(Err("fetch failed"))
       ELSE IF res.errorMessage # "" THEN IpLeave(Err(res.errorMessage))
       ELSE /\ ipPc' = "bootstrap"
            /\ availData' = res.services
            /\ UNCHANGED <<hop, cookieJar, quotePageHtml, cookieHeader, csrfToken,
                           requests, ipResult>>
    /\ UNCHANGED handlerVars

IpAvailability ==
    /\ \E res \in AvailabilityResponses : IpAvailabilityOn(res)
    /\ UNCHANGED auxVars

\* mutant: the quote calls are issued without the two checks
AfterLoop_NoChecks(jar, html) ==
    /\ ipPc' = "quotes"
    /\ hop' = 0
    /\ cookieJar' = jar
    /\ quotePageHtml' = html
    /\ cookieHeader' = jar
    /\ csrfToken' = IF metaMatch(html) = <<>> THEN "" ELSE metaMatch(html)[1]
    /\ requests' = CandidateServices(availData, input.b2b)
    /\ UNCHANGED <<availData, ipResult>>

\* the code after the redirect loop, to the issue of the quote calls
AfterLoop(jar, html) ==
    IF Falsy(phpSessId(jar))
    THEN IpLeave(Err("PHPSESSID not found in Interparcel response"))
    ELSE IF metaMatch(html) = <<>>
    THEN IpLeave(Err("Failed to obtain CSRF token from Interparcel"))
    ELSE /\ ipPc' = "quotes"
         /\ hop' = 0
         /\ cookieJar' = jar
         /\ quotePageHtml' = html
         /\ cookieHeader' = jar
         /\ csrfToken' = metaMatch(html)[1]
         /\ requests' = CandidateServices(availData, input.b2b)
         /\ UNCHANGED <<availData, ipResult>>

\* mutant: the body of the last response is read although it is a redirect
IpHopOn_ReadRedirect(res) ==
    /\ ipPc = "bootstrap"
    /\ hop < HopLimit
    /\ IF res.threw THEN IpLeave(Err("fetch failed"))
       ELSE LET jar == StoreCookies(cookieJar, res.setCookie)
            IN  IF res.redirect /\ hop + 1 < HopLimit
                THEN /\ hop' = hop + 1
                     /\ cookieJar' = jar
                     /\ UNCHANGED <<ipPc, availData, quotePageHtml, cookieHeader,
                                    csrfToken, requests, ipResult>>
                ELSE AfterLoop(jar, res.body)
    /\ UNCHANGED handlerVars

\* mutant: the loop goes on to the next GET whatever the response
IpHopOn_FollowAny(res) ==
    /\ ipPc = "bootstrap"
    /\ hop < HopLimit
    /\ IF res.threw THEN IpLeave(Err("fetch failed"))
       ELSE LET jar == StoreCookies(cookieJar, res.setCookie)
            IN  IF hop + 1 < HopLimit
                THEN /\ hop' = hop + 1
                     /\ cookieJar' = jar
                     /\ UNCHANGED <<ipPc, availData, quotePageHtml, cookieHeader,
                                    csrfToken, requests, ipResult>>
                ELSE AfterLoop(jar, IF res.redirect THEN quotePageHtml ELSE res.body)
    /\ UNCHANGED handlerVars

\* one iteration of the redirect loop: a GET and its response res
IpHopOn(res) ==
    /\ ipPc = "bootstrap"
    /\ hop < HopLimit
    /\ IF res.threw THEN IpLeave(Err("fetch failed"))
       ELSE LET jar == StoreCookies(cookieJar, res.setCookie)
            IN  IF res.redirect /\ hop + 1 < HopLimit
                THEN /\ hop' = hop + 1
                     /\ cookieJar' = jar
                     /\ UNCHANGED <<ipPc, availData, quotePageHtml, cookieHeader,
                                    csrfToken, requests, ipResult>>
                ELSE AfterLoop(jar, IF res.redirect THEN quotePageHtml ELSE res.body)
    /\ UNCHANGED handlerVars

IpHop ==
    /\ \E res \in HopResponses : IpHopOn(res)
    /\ UNCHANGED auxVars

\* what the promise of a request can be fulfilled with, over every answer
QuoteValues == {QuoteValue(res) : res \in QuoteResponses}

\* the quote calls settle (Promise.allSettled), to the return
IpQuotes ==
    /\ ipPc = "quotes"
    /\ \E values \in [1..Len(requests) -> QuoteValues] :
          IpLeave(InterparcelResult(values))
    /\ UNCHANGED handlerVars
    /\ UNCHANGED auxVars

\* the catch and the return of the weight >= 20 branch
HeavyReturn ==
    /\ pc = "heavy"
    /\ ipPc = "returned"
    /\ result' = HeavyBranch(input, isAdmin, ipResult)
    /\ pc' = "done"
    /\ UNCHANGED <<input, ctx, isAdmin, shippingServices, interparcelServices, calls,
                   data, postResult>>
    /\ UNCHANGED ipVars
    /\ UNCHANGED auxVars

\* the return of the international branch for an oversized parcel
InternationalInterparcelReturn ==
    /\ pc = "intlIP"
    /\ ipPc = "returned"
    /\ result' = InternationalBranch(isAdmin, ipResult)
    /\ pc' = "done"
    /\ UNCHANGED <<input, ctx, isAdmin, shippingServices, interparcelServices, calls,
                   data, postResult>>
    /\ UNCHANGED ipVars
    /\ UNCHANGED auxVars

\* the second try of the domestic branch, to the return
DomesticInterparcelReturn ==
    /\ pc = "domIP"
    /\ ipPc = "returned"
    /\ interparcelServices' = IF ipResult.ok THEN ipResult.value ELSE interparcelServices
    /\ result' = DomesticBranch(isAdmin, shippingServices, interparcelServices')
    /\ pc' = "done"
    /\ UNCHANGED <<input, ctx, isAdmin, shippingServices, calls, data, postResult>>
    /\ UNCHANGED ipVars
    /\ UNCHANGED auxVars

\* the try of the oversized domestic branch, to the return
OversizeReturn ==
    /\ pc = "oversizeIP"
    /\ ipPc = "returned"
    /\ shippingServices' = IF ipResult.ok THEN ipResult.value ELSE shippingServices
    /\ result' = DomesticBranch(isAdmin, shippingServices', interparcelServices)
    /\ pc' = "done"
    /\ UNCHANGED <<input, ctx, isAdmin, interparcelServices, calls, data, postResult>>
    /\ UNCHANGED ipVars
    /\ UNCHANGED auxVars

Next ==
    \/ Dispatch
    \/ InternationalPost
    \/ InternationalReturn
    \/ DomesticPost
    \/ IpAvailability
    \/ IpHop
    \/ IpQuotes
    \/ HeavyReturn
    \/ InternationalInterparcelReturn
    \/ DomesticInterparcelReturn
    \/ OversizeReturn

Spec == Init /\ [][Next]_vars

(***************************************************************************)
(* The AusPost clients alone, on every response of the bounded sets.       *)
(***************************************************************************)
InitPost ==
    /\ \/ /\ pc = "domesticClient" /\ data \in DomesticResponses
          /\ answers = <<>> /\ settled = <<>>
       \/ /\ pc = "internationalClient" /\ data \in InternationalResponses
          /\ answers = <<>> /\ settled = <<>>
       \/ /\ pc = "quoteCall" /\ data = NoData
          /\ \E res \in QuoteResponses : answers = <<<<res>>>>
          /\ settled = <<[status |-> "pending", value |-> <<>>]>>
    /\ input \in {in \in Inputs : in.weight < HeavyWeight /\ AllSmall(in) /\ ~in.b2b}
    /\ ctx = NoSession
    /\ isAdmin = SessionIsAdmin(ctx)
    /\ shippingServices = <<>>
    /\ interparcelServices = <<>>
    /\ result = None
    /\ calls = <<>>
    /\ postResult = None
    /\ IpIdle
    /\ fetches = <<>>
    /\ cookieLog = NoCookieLog
    /\ current = 1 /\ suspended = <<>> /\ served = <<>>

\* getDomesticShippingServices, from the parsed response to its return or throw
ClientDomestic ==
    /\ pc = "domesticClient"
    /\ postResult' = getDomesticShippingServices(data)
    /\ pc' = "domesticReturned"
    /\ UNCHANGED <<input, ctx, isAdmin, shippingServices, interparcelServices, result,
                   calls, data>>
    /\ UNCHANGED ipVars
    /\ UNCHANGED auxVars

\* getAusPostInternationalShippingServices, likewise
ClientInternational ==
    /\ pc = "internationalClient"
    /\ postResult' = getAusPostInternationalShippingServices(data)
    /\ pc' = "internationalReturned"
    /\ UNCHANGED <<input, ctx, isAdmin, shippingServices, interparcelServices, result,
                   calls, data>>
    /\ UNCHANGED ipVars
    /\ UNCHANGED auxVars

\* one per-service callback of getInterparcelShippingServices, from the
\* answer to its quote call to the value its promise is fulfilled with
ClientQuote ==
    /\ pc = "quoteCall"
    /\ settled' = [settled EXCEPT
                      ![1] = [status |-> "fulfilled", value |-> QuoteValue(answers[1][1])]]
    /\ pc' = "quoteSettled"
    /\ UNCHANGED <<input, ctx, isAdmin, shippingServices, interparcelServices, result,
                   calls, data, postResult, answers>>
    /\ UNCHANGED ipVars
    /\ UNCHANGED <<fetches, cookieLog, current, suspended, served>>

NextPost == ClientDomestic \/ ClientInternational \/ ClientQuote

SpecPost == InitPost /\ [][NextPost]_vars

(***************************************************************************)
(* The quote calls of getInterparcelShippingServices one by one: after the *)
(* session bootstrap every request is in flight, the calls are answered in *)
(* any order, and the client resumes from Promise.allSettled.              *)
(***************************************************************************)
sessionVars == <<fetches, cookieLog, current, suspended, served>>

Pending == [status |-> "pending", value |-> <<>>]
Fulfilled(v) == [status |-> "fulfilled", value |-> v]

\* mutant: a value is put at the first place still pending, in completion order
Settle_FirstFree(array, k, v) ==
    LET free == CHOOSE j \in DOMAIN array :
                    /\ array[j].status = "pending"
                    /\ \A i \in 1..(j - 1) : array[i].status # "pending"
    IN  [array EXCEPT ![free] = Fulfilled(v)]

\* the promise of requests[k] is fulfilled with v: Promise.allSettled keeps
\* each result at the place of its promise
Settle(array, k, v) == [array EXCEPT ![k] = Fulfilled(v)]

\* mutant: the client resumes as soon as one promise has settled
allSettled_Any(array) ==
    array = <<>> \/ \E k \in DOMAIN array : array[k].status # "pending"

\* await Promise.allSettled(requests) resumes
allSettled(array) == \A k \in DOMAIN array : array[k].status # "pending"

SettledValues(array) == [k \in DOMAIN array |-> array[k].value]

\* availability responses of up to MaxCandidates services
CandidateLists ==
    {names \in SeqsUpTo({PlainName, HunterName}, MaxCandidates) :
        Cardinality({k \in DOMAIN names : names[k] # PlainName}) <= MaxSpecial}

SessionCookie == [name |-> "PHPSESSID", value |-> "s1"]
TokenPage == <<[name |-> "csrf-token", content |-> "tok"]>>

InitQuotes ==
    /\ pc = "quoteClient"
    /\ input \in {in \in Inputs : in.weight >= HeavyWeight /\ AllSmall(in)
                                   /\ in.destinationCountry = "US" /\ ~in.b2b}
    /\ ctx = NoSession
    /\ isAdmin = SessionIsAdmin(ctx)
    /\ shippingServices = <<>>
    /\ interparcelServices = <<>>
    /\ result = None
    /\ calls = <<"interparcel">>
    /\ data = NoData
    /\ postResult = None
    /\ ipPc = "quotes"
    /\ \E names \in CandidateLists :
          availData = [k \in 1..Len(names) |-> [id |-> k, service |-> names[k]]]
    /\ hop = 0
    /\ cookieJar = <<SessionCookie>>
    /\ quotePageHtml = TokenPage
    /\ cookieHeader = cookieJar
    /\ csrfToken = metaMatch(quotePageHtml)[1]
    /\ requests = CandidateServices(availData, input.b2b)
    /\ ipResult = None
    /\ settled = [k \in 1..Len(requests) |-> Pending]
    /\ answers = [k \in 1..Len(requests) |-> <<>>]
    /\ fetches = <<>>
    /\ cookieLog = NoCookieLog
    /\ current = 1 /\ suspended = <<>> /\ served = <<>>

\* one quote call is answered and its promise settles
QuoteSettle ==
    /\ ipPc = "quotes"
    /\ \E k \in DOMAIN answers :
          /\ answers[k] = <<>>
          /\ \E res \in QuoteResponses :
                /\ answers' = [answers EXCEPT ![k] = <<res>>]
                /\ settled' = Settle(settled, k, QuoteValue(res))
    /\ UNCHANGED handlerVars
    /\ UNCHANGED ipVars
    /\ UNCHANGED sessionVars

\* the client resumes from Promise.allSettled, to its return or throw
QuotesReturn ==
    /\ ipPc = "quotes"
    /\ allSettled(settled)
    /\ IpLeave(InterparcelResult(SettledValues(settled)))
    /\ settled' = <<>>
    /\ UNCHANGED answers
    /\ UNCHANGED handlerVars
    /\ UNCHANGED sessionVars

NextQuotes == QuoteSettle \/ QuotesReturn

SpecQuotes == InitQuotes /\ [][NextQuotes]_vars

(***************************************************************************)
(* Several invocations of getInterparcelShippingServices on one event      *)
(* loop.  One invocation runs at a time, from an await to its next await;  *)
(* the others wait with their locals.  The server gives every invocation   *)
(* a session and a token of its own.                                       *)
(***************************************************************************)
\* the locals of the running invocation
Locals ==
    [ipPc |-> ipPc, availData |-> availData, hop |-> hop, cookieJar |-> cookieJar,
     quotePageHtml |-> quotePageHtml, cookieHeader |-> cookieHeader,
     csrfToken |-> csrfToken, requests |-> requests, ipResult |-> ipResult]

\* mutant: cookieJar is one object of the module, shared by every invocation
Resumed_SharedJar(saved, running) == [saved EXCEPT !.cookieJar = running.cookieJar]

\* what an invocation finds when it resumes: the locals it left, since
\* cookieJar, quotePageHtml, cookieHeader and csrfToken are declared in the
\* function body
Resumed(saved, running) == saved

Invocations == 1..MaxInvocations

SessionOf(r) == [name |-> "PHPSESSID", value |-> "s" \o ToString(r)]
TokenPageOf(r) == <<[name |-> "csrf-token", content |-> "tok" \o ToString(r)]>>

\* the responses to a GET of invocation r
HopResponsesOf(r) ==
    {[threw |-> TRUE, redirect |-> FALSE, setCookie |-> <<>>, body |-> <<>>]} \cup
    {[threw |-> FALSE, redirect |-> TRUE, setCookie |-> c, body |-> <<>>] :
        c \in {<<>>, <<SessionOf(r)>>}} \cup
    {[threw |-> FALSE, redirect |-> FALSE, setCookie |-> c, body |-> b] :
        c \in {<<>>, <<SessionOf(r)>>}, b \in {<<>>, TokenPageOf(r)}}

\* an invocation whose availability call has answered one service
Bootstrapping ==
    [ipPc |-> "bootstrap", availData |-> <<[id |-> 1, service |-> PlainName]>>,
     hop |-> 0, cookieJar |-> <<>>, quotePageHtml |-> <<>>, cookieHeader |-> <<>>,
     csrfToken |-> "", requests |-> <<>>, ipResult |-> None]

InitConcurrent ==
    /\ pc = "concurrentClients"
    /\ input \in {in \in Inputs : in.weight >= HeavyWeight /\ AllSmall(in)
                                   /\ in.destinationCountry = "US" /\ ~in.b2b}
    /\ ctx = NoSession
    /\ isAdmin = SessionIsAdmin(ctx)
    /\ shippingServices = <<>>
    /\ interparcelServices = <<>>
    /\ result = None
    /\ calls = <<"interparcel">>
    /\ data = NoData
    /\ postResult = None
    /\ ipPc = Bootstrapping.ipPc /\ availData = Bootstrapping.availData
    /\ hop = Bootstrapping.hop /\ cookieJar = Bootstrapping.cookieJar
    /\ quotePageHtml = Bootstrapping.quotePageHtml
    /\ cookieHeader = Bootstrapping.cookieHeader
    /\ csrfToken = Bootstrapping.csrfToken
    /\ requests = Bootstrapping.requests /\ ipResult = Bootstrapping.ipResult
    /\ current = 1
    /\ suspended = [r \in Invocations \ {1} |-> Bootstrapping]
    /\ served = [r \in Invocations |-> [cookies |-> {}, tokens |-> {}]]
    /\ settled = <<>> /\ answers = <<>> /\ fetches = <<>>
    /\ cookieLog = NoCookieLog

\* the running invocation waits at its await and invocation r resumes
Resume(r) ==
    /\ r \in DOMAIN suspended
    /\ LET to == Resumed(suspended[r], Locals)
       IN  /\ ipPc' = to.ipPc /\ availData' = to.availData /\ hop' = to.hop
           /\ cookieJar' = to.cookieJar /\ quotePageHtml' = to.quotePageHtml
           /\ cookieHeader' = to.cookieHeader /\ csrfToken' = to.csrfToken
           /\ requests' = to.requests /\ ipResult' = to.ipResult
    /\ suspended' = [i \in (DOMAIN suspended \ {r}) \cup {current} |->
                       IF i = current THEN Locals ELSE suspended[i]]
    /\ current' = r
    /\ UNCHANGED handlerVars
    /\ UNCHANGED <<settled, answers, fetches, cookieLog, served>>

Switch == \E r \in Invocations : Resume(r)

\* one GET of the running invocation and its response
ConcurrentHop ==
    /\ \E res \in HopResponsesOf(current) :
          /\ IpHopOn(res)
          /\ served' = [served EXCEPT ![current] =
                           [cookies |-> @.cookies \cup {res.setCookie[k] :
                                                          k \in DOMAIN res.setCookie},
                            tokens |-> @.tokens \cup {res.body[k].content :
                                                        k \in DOMAIN res.body}]]
    /\ UNCHANGED <<settled, answers, fetches, cookieLog, current, suspended>>

NextConcurrent == Switch \/ ConcurrentHop \/ IpQuotes

SpecConcurrent == InitConcurrent /\ [][NextConcurrent]_vars

(***************************************************************************)
(* The handler with the history of its Interparcel fetches: every fetch    *)
(* in the order of issue with the kind of its response, and the cookies    *)
(* the server has set so far.                                              *)
(***************************************************************************)
Fetch(to, id, reply, body) == [to |-> to, id |-> id, reply |-> reply, body |-> body]

\* fetch(`${interparcelBaseUrl}/quote/availability?...`)
AvailabilityFetch(res) ==
    Fetch("availability", 0,
          IF res.threw THEN "none"
          ELSE IF res.errorMessage # "" THEN "error" ELSE "services", <<>>)

\* fetch(nextUrl, {method: "GET", redirect: "manual", ...})
GetFetch(res) ==
    Fetch("select-service", 0,
          IF res.threw THEN "none" ELSE IF res.redirect THEN "redirect" ELSE "page",
          res.body)

\* fetch(`${interparcelBaseUrl}/quote/quote?...service=${service.id}`)
QuoteFetch(service) == Fetch("quote", service.id, "none", <<>>)

\* the fetches and the requests the client can be sent: weight, destination,
\* b2b and whether a dimension reaches the limit decide them
TracedInputs ==
    {in \in Inputs : /\ in.length < DimensionLimit /\ in.width < DimensionLimit
                     /\ in.weight >= HeavyWeight => in.height < DimensionLimit}

InitTraced ==
    /\ input \in TracedInputs
    /\ ctx = NoSession
    /\ isAdmin = SessionIsAdmin(ctx)
    /\ pc = "start"
    /\ shippingServices = <<>>
    /\ interparcelServices = <<>>
    /\ result = None
    /\ calls = <<>>
    /\ data = NoData
    /\ postResult = None
    /\ IpIdle
    /\ AuxIdle

TracedAvailability ==
    /\ \E res \in AvailabilityResponses :
          /\ IpAvailabilityOn(res)
          /\ fetches' = Append(fetches, AvailabilityFetch(res))
    /\ UNCHANGED <<settled, answers, cookieLog, current, suspended, served>>

\* one GET and its response res; the quote calls are issued in the step
\* that leaves the loop with a session and a token
HopTraced(res) ==
    /\ IpHopOn(res)
    /\ fetches' = Append(fetches, GetFetch(res))
                      \o [k \in DOMAIN requests' |-> QuoteFetch(requests'[k])]

TracedHop ==
    /\ \E res \in HopResponses : HopTraced(res)
    /\ UNCHANGED <<settled, answers, cookieLog, current, suspended, served>>

NextTraced ==
    \/ Dispatch
    \/ InternationalPost
    \/ InternationalReturn
    \/ DomesticPost
    \/ TracedAvailability
    \/ TracedHop
    \/ IpQuotes
    \/ HeavyReturn
    \/ InternationalInterparcelReturn
    \/ DomesticInterparcelReturn
    \/ OversizeReturn

SpecTraced == InitTraced /\ [][NextTraced]_vars

(***************************************************************************)
(* The session bootstrap alone, with responses that set several cookies:   *)
(* two names, two values, up to MaxCookies Set-Cookie headers a response.  *)
(* The history keeps what the server has set and what each GET was sent.   *)
(***************************************************************************)
CookieNames == {"PHPSESSID", "lang"}
CookieValues == {"s1", "s2"}

CookieLists == SeqsUpTo([name : CookieNames, value : CookieValues], MaxCookies)

CookieHopResponses ==
    {[threw |-> TRUE, redirect |-> FALSE, setCookie |-> <<>>, body |-> <<>>]} \cup
    {[threw |-> FALSE, redirect |-> TRUE, setCookie |-> c, body |-> <<>>] :
        c \in CookieLists} \cup
    {[threw |-> FALSE, redirect |-> FALSE, setCookie |-> c, body |-> b] :
        c \in CookieLists, b \in HtmlPages}

\* the cookies the server has set: per name, the value of the latest Set-Cookie
RECURSIVE Remember(_, _)
Remember(latest, cs) ==
    IF cs = <<>> THEN latest
    ELSE Remember({c \in latest : c.name # Head(cs).name} \cup {Head(cs)}, Tail(cs))

InitCookies ==
    /\ pc = "bootstrapClient"
    /\ input \in {in \in Inputs : in.weight >= HeavyWeight /\ AllSmall(in)
                                   /\ in.destinationCountry = "US" /\ ~in.b2b}
    /\ ctx = NoSession
    /\ isAdmin = SessionIsAdmin(ctx)
    /\ shippingServices = <<>>
    /\ interparcelServices = <<>>
    /\ result = None
    /\ calls = <<"interparcel">>
    /\ data = NoData
    /\ postResult = None
    /\ ipPc = "bootstrap"
    /\ availData = <<[id |-> 1, service |-> PlainName], [id |-> 2, service |-> PlainName]>>
    /\ hop = 0 /\ cookieJar = <<>>
    /\ quotePageHtml = <<>> /\ cookieHeader = <<>> /\ csrfToken = ""
    /\ requests = <<>> /\ ipResult = None
    /\ fetches = <<AvailabilityFetch([threw |-> FALSE, errorMessage |-> ""])>>
    /\ cookieLog = NoCookieLog
    /\ settled = <<>> /\ answers = <<>>
    /\ current = 1 /\ suspended = <<>> /\ served = <<>>

\* one GET: the Cookie header it is sent is built from cookieJar as it is,
\* then the Set-Cookie headers of the response are stored
CookieHop ==
    /\ \E res \in CookieHopResponses :
          /\ HopTraced(res)
          /\ cookieLog' = [latest |-> Remember(cookieLog.latest, res.setCookie),
                           sent |-> cookieJar,
                           known |-> cookieLog.latest]
    /\ UNCHANGED <<settled, answers, current, suspended, served>>

NextCookies == CookieHop \/ IpQuotes

SpecCookies == InitCookies /\ [][NextCookies]_vars

\* a GET in flight settles: it is answered or it fails
SpecCookiesFair == SpecCookies /\ WF_vars(CookieHop)

(***************************************************************************)
(* The filters on the candidate services: availability responses whose     *)
(* names spell the deny-listed carrier and B2B in several letter cases,    *)
(* for B2B requests and others.  The history keeps the services of the     *)
(* availability response and the headers of every quote call.              *)
(***************************************************************************)
MaxListed == 2        \* services of an availability response

LowerB2BName == <<"T", "N", "T", " ", "b", "2", "b">>
MixedB2BName == <<"B", "2", "b">>
LowerHunterName == <<"h", "u", "n", "t", "e", "r">>

ListedNames ==
    {PlainName, HunterName, B2BName, LowerB2BName, MixedB2BName, LowerHunterName}

ListedServices ==
    {[k \in 1..Len(names) |-> [id |-> k, service |-> names[k]]] :
        names \in SeqsUpTo(ListedNames, MaxListed)}

\* the responses to a GET: a redirect may set the session, the page may set
\* another one and may carry the token
ListedHopResponses ==
    {[threw |-> TRUE, redirect |-> FALSE, setCookie |-> <<>>, body |-> <<>>]} \cup
    {[threw |-> FALSE, redirect |-> TRUE, setCookie |-> c, body |-> <<>>] :
        c \in {<<>>, <<SessionOf(1)>>}} \cup
    {[threw |-> FALSE, redirect |-> FALSE, setCookie |-> c, body |-> b] :
        c \in {<<>>, <<SessionOf(2)>>}, b \in {<<>>, TokenPageOf(1)}}

\* fetch(`.../quote/quote?...`, {headers: {Cookie, "x-csrf-token"}})
QuoteCall(service, cookie, token) ==
    [to |-> "quote", id |-> service.id, reply |-> "none", body |-> <<>>,
     Cookie |-> cookie, xCsrfToken |-> token]

InitListed ==
    /\ pc = "filterClient"
    /\ input \in {in \in Inputs : in.weight >= HeavyWeight /\ AllSmall(in)
                                   /\ in.destinationCountry = "US"}
    /\ ctx = NoSession
    /\ isAdmin = SessionIsAdmin(ctx)
    /\ shippingServices = <<>>
    /\ interparcelServices = <<>>
    /\ result = None
    /\ calls = <<"interparcel">>
    /\ data = NoData
    /\ postResult = None
    /\ ipPc = "bootstrap"
    /\ availData \in ListedServices
    /\ hop = 0 /\ cookieJar = <<>>
    /\ quotePageHtml = <<>> /\ cookieHeader = <<>> /\ csrfToken = ""
    /\ requests = <<>> /\ ipResult = None
    /\ fetches = <<Fetch("availability", 0, "services", availData)>>
    /\ cookieLog = NoCookieLog
    /\ settled = <<>> /\ answers = <<>>
    /\ current = 1 /\ suspended = <<>> /\ served = <<>>

\* one GET and its response; the step that leaves the loop with a session
\* and a token issues the quote calls, each with cookieHeader and csrfToken
ListedHop ==
    /\ \E res \in ListedHopResponses :
          /\ IpHopOn(res)
          /\ fetches' = Append(fetches, GetFetch(res))
                            \o [k \in DOMAIN requests' |->
                                  QuoteCall(requests'[k], cookieHeader', csrfToken')]
          /\ cookieLog' = [latest |-> Remember(cookieLog.latest, res.setCookie),
                           sent |-> cookieJar,
                           known |-> cookieLog.latest]
    /\ UNCHANGED <<settled, answers, current, suspended, served>>

NextListed == ListedHop \/ IpQuotes

SpecListed == InitListed /\ [][NextListed]_vars

(***************************************************************************)
(* The availability call of getInterparcelShippingServices with the query  *)
(* it is sent, for weights around the pallet threshold.                    *)
(***************************************************************************)
ParamWeights == {PalletWeight - 1, PalletWeight, PalletWeight + 1}

ParamInputs ==
    {in \in [weight : ParamWeights, length : Dimensions, width : Dimensions,
             height : Dimensions, destinationCountry : Countries, b2b : BOOLEAN] :
        Cardinality({d \in {"length", "width", "height"} : in[d] >= DimensionLimit})
            <= MaxOversized}

\* interparcelParams: the package as pkg[0][0..3], and the destination
interparcelParams(in) ==
    IF in.weight > PaddedAbove
    THEN [pkg00 |-> ToString(in.weight),
          pkg01 |-> ToString(in.length + 30),
          pkg02 |-> ToString(in.width + 30),
          pkg03 |-> ToString(in.height + 10),
          del_country |-> in.destinationCountry]
    ELSE [pkg00 |-> ToString(in.weight),
          pkg01 |-> ToString(in.length),
          pkg02 |-> ToString(in.width),
          pkg03 |-> ToString(in.height),
          del_country |-> in.destinationCountry]

\* new URLSearchParams({...interparcelParams, type: ...})
searchParams(in) ==
    [pkg00 |-> interparcelParams(in).pkg00,
     pkg01 |-> interparcelParams(in).pkg01,
     pkg02 |-> interparcelParams(in).pkg02,
     pkg03 |-> interparcelParams(in).pkg03,
     del_country |-> interparcelParams(in).del_country,
     type |-> IF in.weight >= PalletWeight THEN "pallet" ELSE "parcel"]

\* fetch(`${interparcelBaseUrl}/quote/availability?${searchParams}`)
AvailabilityRequest(in, res) ==
    [to |-> "availability", id |-> 0,
     reply |-> AvailabilityFetch(res).reply, body |-> <<>>,
     params |-> searchParams(in)]

InitParams ==
    /\ input \in ParamInputs
    /\ ctx = NoSession
    /\ isAdmin = SessionIsAdmin(ctx)
    /\ pc = "start"
    /\ shippingServices = <<>>
    /\ interparcelServices = <<>>
    /\ result = None
    /\ calls = <<>>
    /\ data = NoData
    /\ postResult = None
    /\ IpIdle
    /\ AuxIdle

ParamsAvailability ==
    /\ \E res \in AvailabilityResponses :
          /\ IpAvailabilityOn(res)
          /\ fetches' = Append(fetches, AvailabilityRequest(input, res))
    /\ UNCHANGED <<settled, answers, cookieLog, current, suspended, served>>

NextParams == Dispatch \/ ParamsAvailability

SpecParams == InitParams /\ [][NextParams]_vars

(***************************************************************************)
(* The session bootstrap with redirects that carry a body: a 3xx response  *)
(* may hold a page with a token of its own, unlike the token of the final  *)
(* page.                                                                   *)
(***************************************************************************)
RedirectHopResponses ==
    {[threw |-> TRUE, redirect |-> FALSE, setCookie |-> <<>>, body |-> <<>>]} \cup
    {[threw |-> FALSE, redirect |-> TRUE, setCookie |-> c, body |-> b] :
        c \in {<<>>, <<SessionCookie>>}, b \in {<<>>, TokenPageOf(1)}} \cup
    {[threw |-> FALSE, redirect |-> FALSE, setCookie |-> c, body |-> b] :
        c \in {<<>>, <<SessionCookie>>}, b \in {<<>>, TokenPageOf(2)}}

InitRedirects ==
    /\ pc = "redirectClient"
    /\ input \in {in \in Inputs : in.weight >= HeavyWeight /\ AllSmall(in)
                                   /\ in.destinationCountry = "US" /\ ~in.b2b}
    /\ ctx = NoSession
    /\ isAdmin = SessionIsAdmin(ctx)
    /\ shippingServices = <<>>
    /\ interparcelServices = <<>>
    /\ result = None
    /\ calls = <<"interparcel">>
    /\ data = NoData
    /\ postResult = None
    /\ ipPc = "bootstrap"
    /\ availData = <<[id |-> 1, service |-> PlainName], [id |-> 2, service |-> PlainName]>>
    /\ hop = 0 /\ cookieJar = <<>>
    /\ quotePageHtml = <<>> /\ cookieHeader = <<>> /\ csrfToken = ""
    /\ requests = <<>> /\ ipResult = None
    /\ fetches = <<AvailabilityFetch([threw |-> FALSE, errorMessage |-> ""])>>
    /\ cookieLog = NoCookieLog
    /\ settled = <<>> /\ answers = <<>>
    /\ current = 1 /\ suspended = <<>> /\ served = <<>>

\* one GET; the body of a redirect is logged as the server sent it
RedirectHop ==
    /\ \E res \in RedirectHopResponses :
          /\ HopTraced(res)
          /\ cookieLog' = [latest |-> Remember(cookieLog.latest, res.setCookie),
                           sent |-> cookieJar,
                           known |-> cookieLog.latest]
    /\ UNCHANGED <<settled, answers, current, suspended, served>>

NextRedirects == RedirectHop \/ IpQuotes

SpecRedirects == InitRedirects /\ [][NextRedirects]_vars

(***************************************************************************)
(* Properties.                                                             *)
(***************************************************************************)
Done == pc = "done"
Heavy == input.weight >= HeavyWeight
Domestic == input.destinationCountry = "AU"
SmallParcel ==
    /\ input.length < DimensionLimit
    /\ input.width < DimensionLimit
    /\ input.height < DimensionLimit
InterparcelFailed == ipPc = "returned" /\ ~ipResult.ok
Range(s) == {s[k] : k \in DOMAIN s}
IsPrefix(a, b) == Len(a) <= Len(b) /\ a = SubSeq(b, 1, Len(a))
NamesOf(s) == [k \in DOMAIN s |-> s[k].display_name]

\* C1, as stated: weight >= 20, destination AU and a failed Interparcel call
\* return the list that holds the pickup option and nothing else.
C1_Original ==
    (Done /\ Heavy /\ Domestic /\ InterparcelFailed)
        => (result.ok /\ result.value = <<pickupShippingOption>>)

\* C1, amended: weight >= 20, destination AU and a failed Interparcel call
\* return a list, never an error and never the empty list: the pickup option
\* alone, preceded by the admin option when the caller is an admin.
C1_PickupOnly ==
    (Done /\ Heavy /\ Domestic /\ InterparcelFailed)
        => /\ result.ok
           /\ result.value = IF isAdmin
                             THEN <<adminShippingOption, pickupShippingOption>>
                             ELSE <<pickupShippingOption>>

\* a caller who is no admin gets <<pickup>> after a failed availability call
C1_Witness ==
    /\ Done /\ Heavy /\ Domestic /\ InterparcelFailed /\ ~isAdmin
    /\ ipResult.error = "fetch failed"
    /\ result.ok /\ result.value = <<pickupShippingOption>>

\* C2: weight >= 20, a destination other than AU and a failed Interparcel call
\* end in the error Interparcel threw, unmodified, and in no list.
C2_FailurePropagates ==
    (Done /\ Heavy /\ ~Domestic /\ InterparcelFailed)
        => (~result.ok /\ result.error = ipResult.error /\ result.value = <<>>)

\* the session error of Interparcel reaches the caller of a heavy US request
C2_Witness ==
    /\ Done /\ Heavy /\ ~Domestic /\ InterparcelFailed
    /\ ~result.ok
    /\ result.error = "PHPSESSID not found in Interparcel response"

\* C3, as stated: with all dimensions < 105 and a destination other than AU,
\* whatever the weight, only the international AusPost client is invoked.
C3_Original ==
    (SmallParcel /\ ~Domestic)
        => /\ \A k \in DOMAIN calls : calls[k] = "international"
           /\ Done => calls = <<"international">>

\* C3, amended: with weight < 20, all dimensions < 105 and a destination other
\* than AU, only the international AusPost client is invoked, and Interparcel
\* never is.
C3_InternationalOnly ==
    (~Heavy /\ SmallParcel /\ ~Domestic)
        => /\ \A k \in DOMAIN calls : calls[k] = "international"
           /\ ipPc = "idle"
           /\ Done => calls = <<"international">>

\* a light, small US request has returned after the international call alone
C3_Witness ==
    /\ Done /\ ~Heavy /\ SmallParcel /\ ~Domestic
    /\ calls = <<"international">> /\ ipPc = "idle" /\ result.ok

\* C4: a list returned to an admin caller starts with the Admin Shipping
\* option, of amount 1, in every branch.
C4_AdminFirst ==
    (Done /\ isAdmin /\ result.ok)
        => /\ Len(result.value) >= 1
           /\ result.value[1].display_name = "Admin Shipping"
           /\ result.value[1].amount = 1

\* an admin's domestic list, truncated to four, starts with Admin Shipping
C4_Witness ==
    /\ Done /\ isAdmin /\ result.ok
    /\ calls = <<"domestic", "interparcel">> /\ postResult.ok /\ ipResult.ok
    /\ Len(result.value) = MaxOptions
    /\ result.value[1].display_name = "Admin Shipping"

\* C5, as stated: a returned list never has more than 4 elements.
C5_AtMostFour ==
    (Done /\ result.ok) => Len(result.value) <= 4

\* C6, as stated: the handler never returns the empty list.
C6_NeverEmpty ==
    (Done /\ result.ok) => result.value # <<>>

IsCarrierOption(o) == o # adminShippingOption /\ o # pickupShippingOption
CarrierOptions(s) == SelectSeq(s, IsCarrierOption)
ClientOrder ==
    (IF postResult.ok THEN postResult.value ELSE <<>>) \o
    (IF ipPc = "returned" /\ ipResult.ok THEN ipResult.value ELSE <<>>)
AdminOnlyFirst(v) == \A i \in DOMAIN v : v[i] = adminShippingOption => i = 1
PickupBeforeCarriers(v) ==
    \A i, j \in DOMAIN v :
        (i < j /\ v[j] = pickupShippingOption) => v[i] = adminShippingOption
PickupLast(v) == \A i \in DOMAIN v : v[i] = pickupShippingOption => i = Len(v)

\* C7, as stated: in every returned list the admin option comes first, then
\* the pickup option, then the carrier options in the order of their clients;
\* no carrier option precedes the pickup option in any branch.
C7_Original ==
    (Done /\ result.ok)
        => /\ AdminOnlyFirst(result.value)
           /\ PickupBeforeCarriers(result.value)
           /\ IsPrefix(CarrierOptions(result.value), ClientOrder)

\* C7, amended: the admin option comes first and the carrier options keep the
\* order of their clients; the pickup option precedes the carrier options
\* when weight < 20 and follows them, as the last element, when weight >= 20.
C7_FixedOrder ==
    (Done /\ result.ok)
        => /\ AdminOnlyFirst(result.value)
           /\ ~Heavy => PickupBeforeCarriers(result.value)
           /\ Heavy => PickupLast(result.value)
           /\ IsPrefix(CarrierOptions(result.value), ClientOrder)

\* an admin's heavy AU list: admin option, the quotes, then the pickup option
C7_Witness ==
    /\ Done /\ Heavy /\ Domestic /\ isAdmin /\ result.ok /\ ipResult.ok
    /\ Len(result.value) = Len(ipResult.value) + 2
    /\ result.value[Len(result.value)] = pickupShippingOption

\* C8: weight < 20, all dimensions < 105, destination AU and a successful
\* domestic AusPost call return at most 4 options, the pickup option and both
\* AusPost tiers among them, whatever Interparcel returns and whoever calls.
C8_DomesticTiers ==
    (Done /\ ~Heavy /\ SmallParcel /\ Domestic /\ postResult.ok)
        => /\ result.ok
           /\ Len(result.value) <= 4
           /\ pickupShippingOption \in Range(result.value)
           /\ \E o \in Range(result.value) : o.display_name = "AusPost Regular"
           /\ \E o \in Range(result.value) : o.display_name = "AusPost Express"

\* an admin's domestic list with four Interparcel quotes behind both tiers
C8_Witness ==
    /\ Done /\ ~Heavy /\ SmallParcel /\ Domestic /\ postResult.ok
    /\ isAdmin /\ ipResult.ok /\ Len(ipResult.value) = 4
    /\ Len(result.value) = 4

InternationalAllowed(service) == service.name \in {"Standard", "Express"}

\* C9: for a caller who is no admin, weight < 20, all dimensions < 105 and a
\* destination other than AU, a returned list holds the services of the
\* international AusPost response that are named Standard or Express, in the
\* order of the response, and nothing else: no pickup option, no Interparcel
\* quote.
C9_InternationalList ==
    (Done /\ ~isAdmin /\ ~Heavy /\ SmallParcel /\ ~Domestic /\ result.ok)
        => /\ calls = <<"international">>
           /\ ~data.threw
           /\ NamesOf(result.value)
                = [k \in DOMAIN SelectSeq(data.service, InternationalAllowed) |->
                     SelectSeq(data.service, InternationalAllowed)[k].name]
           /\ pickupShippingOption \notin Range(result.value)

\* a response of three services, one of them dropped, the others kept in order
C9_Witness ==
    /\ Done /\ ~isAdmin /\ ~Heavy /\ SmallParcel /\ ~Domestic /\ result.ok
    /\ Len(data.service) = 3
    /\ NamesOf(result.value) = <<"Express", "Standard">>

HasCode(code) == \E k \in DOMAIN data.service : data.service[k].code = code
FirstPrice(code) ==
    LET k == CHOOSE k \in DOMAIN data.service :
                 /\ data.service[k].code = code
                 /\ \A j \in 1..(k - 1) : data.service[j].code # code
    IN  data.service[k].price
BothCodes == HasCode("AUS_PARCEL_REGULAR") /\ HasCode("AUS_PARCEL_EXPRESS")
BothPriced ==
    /\ BothCodes
    /\ FirstPrice("AUS_PARCEL_REGULAR") # ""
    /\ FirstPrice("AUS_PARCEL_EXPRESS") # ""
RegularThenExpress ==
    /\ postResult.ok
    /\ NamesOf(postResult.value) = <<"AusPost Regular", "AusPost Express">>

\* C10, as stated: the domestic AusPost client fails, with no partial result,
\* when the response lacks AUS_PARCEL_REGULAR or AUS_PARCEL_EXPRESS, and
\* returns Regular then Express whenever both codes are present.
C10_Original ==
    (pc = "domesticReturned")
        => /\ ~BothCodes => (~postResult.ok /\ postResult.value = <<>>)
           /\ BothCodes => RegularThenExpress

\* C10, amended: the domestic AusPost client fails, with no partial result,
\* when the response lacks AUS_PARCEL_REGULAR or AUS_PARCEL_EXPRESS, and also
\* when the first entry of either code has an empty price; when both codes
\* are present with a price it returns exactly two options, Regular then
\* Express, whatever the order and the other services of the response.
C10_BothTiersOrFail ==
    (pc = "domesticReturned")
        => /\ ~BothPriced => (~postResult.ok /\ postResult.value = <<>>)
           /\ BothPriced => RegularThenExpress

\* Express listed first and a third service between: Regular is still returned first
C10_Witness ==
    /\ pc = "domesticReturned" /\ RegularThenExpress
    /\ Len(data.service) = 3
    /\ data.service[1].code = "AUS_PARCEL_EXPRESS"
    /\ data.service[2].code = "AUS_PARCEL_COURIER"
    /\ data.service[3].code = "AUS_PARCEL_REGULAR"

StandardOrExpress(service) == service.name = "Standard" \/ service.name = "Express"
KeptServices == SelectSeq(data.service, StandardOrExpress)

\* C11: the international AusPost client, given a parsed response, returns
\* without an error one option per service named Standard or Express, in the
\* order of the response and under the service's name; every other service
\* is dropped, also when nothing is left and the list returned is empty.
C11_AllowListOnly ==
    (pc = "internationalReturned" /\ ~data.threw)
        => /\ postResult.ok
           /\ Len(postResult.value) = Len(KeptServices)
           /\ \A k \in DOMAIN KeptServices :
                  postResult.value[k].display_name = KeptServices[k].name
           /\ (KeptServices = <<>>) => (postResult.value = <<>>)

\* a response of Economy services alone: the client returns the empty list
C11_Witness ==
    /\ pc = "internationalReturned" /\ ~data.threw
    /\ Len(data.service) = 2
    /\ \A k \in DOMAIN data.service : data.service[k].name = "Economy"
    /\ postResult.ok /\ postResult.value = <<>>

Returned == ipPc = "returned"
Usable(answer) ==
    /\ answer # <<>>
    /\ ~answer[1].threw /\ answer[1].ok /\ Len(answer[1].services) > 0
UsableAnswers == SelectSeq(answers, Usable)
Smaller(a, b) == IF a <= b THEN a ELSE b
AnswerKinds ==
    {IF answers[k][1].threw THEN "threw"
     ELSE IF ~answers[k][1].ok THEN "status"
     ELSE IF answers[k][1].services = <<>> THEN "empty" ELSE "quote" :
        k \in {j \in DOMAIN answers : answers[j] # <<>>}}

\* C12: once the session is bootstrapped, the Interparcel client returns or
\* throws only after every quote call has settled; a call that threw, had a
\* status that is not ok or carried no services only takes its own service
\* out of the result; and the client throws, "Unable to ship this item to
\* the destination country", exactly when no call gave a usable quote.
C12_SettleAllThenDecide ==
    Returned
        => /\ \A k \in DOMAIN answers : answers[k] # <<>>
           /\ ipResult.ok <=> (UsableAnswers # <<>>)
           /\ ipResult.ok =>
                  Len(ipResult.value) = Smaller(Len(UsableAnswers), MaxQuotes)
           /\ ~ipResult.ok =>
                  /\ ipResult.value = <<>>
                  /\ ipResult.error
                         = "Unable to ship this item to the destination country"

\* four calls, one of each outcome: the one quote is returned alone
C12_Witness ==
    /\ Returned /\ Len(answers) = 4
    /\ AnswerKinds = {"threw", "status", "empty", "quote"}
    /\ ipResult.ok /\ Len(ipResult.value) = 1

QuotedName(answer) ==
    answer[1].services[1].carrier \o " - " \o answer[1].services[1].name

\* C13: the Interparcel client returns at most 4 options: the quotes of the
\* first four candidate services whose call gave a usable quote, in the
\* order the availability response lists the candidates, in whatever order
\* the calls were answered.
C13_FirstFourInOrder ==
    (Returned /\ ipResult.ok)
        => /\ Len(ipResult.value) <= 4
           /\ NamesOf(ipResult.value)
                = [k \in 1..Smaller(Len(UsableAnswers), 4) |->
                     QuotedName(UsableAnswers[k])]

\* five usable quotes, the fifth unlike the fourth: the first four are returned
C13_Witness ==
    /\ Returned /\ ipResult.ok
    /\ Len(UsableAnswers) = 5
    /\ NamesOf(ipResult.value)
         = <<"TNT - Road", "Toll - Priority", "TNT - Road", "Toll - Priority">>
    /\ QuotedName(UsableAnswers[5]) = "TNT - Road"

\* price * 100 in exact arithmetic: the prices are decimals of two places
ExactTimes100(p) ==
    CASE p = "8.95" -> 895
      [] p = "1.10" -> 110

\* amount is the least integer that is not below price * 100
RoundedUp(amount, p) ==
    /\ amount >= ExactTimes100(p)
    /\ amount < ExactTimes100(p) + 1

\* C14, as stated: the amount of every option a carrier client returns is
\* the least integer >= price * 100 of the price the provider quoted, for
\* the domestic and the international AusPost client and for Interparcel.
C14_RoundedUp ==
    /\ (pc = "domesticReturned" /\ postResult.ok)
          => /\ RoundedUp(postResult.value[1].amount, FirstPrice("AUS_PARCEL_REGULAR"))
             /\ RoundedUp(postResult.value[2].amount, FirstPrice("AUS_PARCEL_EXPRESS"))
    /\ (pc = "internationalReturned" /\ postResult.ok)
          => \A k \in DOMAIN KeptServices :
                 RoundedUp(postResult.value[k].amount, KeptServices[k].price)
    /\ (pc = "quoteSettled" /\ Usable(answers[1]))
          => /\ settled[1].value # <<>>
             /\ RoundedUp(settled[1].value[1].amount,
                          answers[1][1].services[1].sellPrice)

LocalsOf(r) == IF r = current THEN Locals ELSE suspended[r]

\* C15: every invocation of the Interparcel client starts with an empty
\* cookie jar and no token, and under every interleaving of the invocations
\* the cookies in its jar, the Cookie header and the token it sends with its
\* quote calls come from the responses to its own GETs, never from those of
\* another invocation.
C15_OwnSession ==
    (pc = "concurrentClients")
        => \A r \in Invocations :
               /\ \A k \in DOMAIN LocalsOf(r).cookieJar :
                      LocalsOf(r).cookieJar[k] \in served[r].cookies
               /\ (served[r].cookies = {}) => (LocalsOf(r).cookieJar = <<>>)
               /\ (LocalsOf(r).ipPc = "quotes")
                     => /\ LocalsOf(r).cookieHeader # <<>>
                        /\ \A k \in DOMAIN LocalsOf(r).cookieHeader :
                               LocalsOf(r).cookieHeader[k] \in served[r].cookies
                        /\ LocalsOf(r).csrfToken \in served[r].tokens

\* two invocations have their quote calls in flight, each with its own session
C15_Witness ==
    /\ pc = "concurrentClients"
    /\ LocalsOf(1).ipPc = "quotes" /\ LocalsOf(2).ipPc = "quotes"
    /\ LocalsOf(1).cookieHeader = <<SessionOf(1)>>
    /\ LocalsOf(2).cookieHeader = <<SessionOf(2)>>
    /\ LocalsOf(1).csrfToken = "tok1" /\ LocalsOf(2).csrfToken = "tok2"

IsAvailabilityFetch(f) == f.to = "availability"
IsGet(f) == f.to = "select-service"
IsQuoteFetch(f) == f.to = "quote"
AvailabilityCalls == SelectSeq(fetches, IsAvailabilityFetch)
Gets == SelectSeq(fetches, IsGet)
QuoteCalls == SelectSeq(fetches, IsQuoteFetch)
LastGet == Gets[Len(Gets)]

\* C16: within one request nothing is retried, whatever fails: no carrier
\* client is invoked twice, the availability endpoint of Interparcel is
\* fetched at most once and its quote endpoint at most once per service id.
C16_NoRetry ==
    /\ \A i, j \in DOMAIN calls : i < j => calls[i] # calls[j]
    /\ Len(AvailabilityCalls) <= 1
    /\ \A i, j \in DOMAIN QuoteCalls : i < j => QuoteCalls[i].id # QuoteCalls[j].id

\* the domestic call failed and all three quote calls failed: the request
\* has ended with two client calls, one availability call, three quote calls
C16_Witness ==
    /\ Done /\ calls = <<"domestic", "interparcel">>
    /\ ~postResult.ok /\ ~ipResult.ok
    /\ ipResult.error = "Unable to ship this item to the destination country"
    /\ Len(AvailabilityCalls) = 1 /\ Len(QuoteCalls) = 3
    /\ result.ok /\ result.value = <<pickupShippingOption>>

\* C17: an availability response with an errorMessage is the last fetch of
\* the Interparcel client: the client has thrown that message at once, and
\* no GET of the session bootstrap and no quote call is ever issued.
C17_ErrorMessageStops ==
    \A i \in DOMAIN fetches :
        (fetches[i].to = "availability" /\ fetches[i].reply = "error")
            => /\ i = Len(fetches)
               /\ Gets = <<>> /\ QuoteCalls = <<>>
               /\ Returned /\ ~ipResult.ok
               /\ ipResult.error = "No services found"

\* a heavy US request has ended in the errorMessage after that one fetch
C17_Witness ==
    /\ Done /\ Heavy /\ ~Domestic
    /\ Len(fetches) = 1 /\ fetches[1].to = "availability" /\ fetches[1].reply = "error"
    /\ ~result.ok /\ result.error = "No services found"

BootstrapSafe ==
    /\ Len(Gets) <= 5
    /\ \A k \in 1..(Len(Gets) - 1) : Gets[k].reply = "redirect"
    /\ (ipPc = "bootstrap")
          => /\ Len(Gets) < 5
             /\ \A k \in DOMAIN Gets : Gets[k].reply = "redirect"
    /\ (Gets # <<>> /\ LastGet.reply = "page")
          => /\ ipPc # "bootstrap"
             /\ (ipPc = "quotes") => (quotePageHtml = LastGet.body)

\* C18: the session bootstrap issues at most 5 GETs and ends: a GET follows
\* another only when that one was answered by a redirect (3xx with a
\* Location), the first response that is no redirect ends the loop and its
\* body is the final HTML page, and a bootstrap under way always comes to
\* its end.
C18_BoundedBootstrap ==
    /\ []BootstrapSafe
    /\ (ipPc = "bootstrap") ~> (ipPc # "bootstrap")

\* the fifth GET was answered by a page after four redirects
C18_Witness ==
    /\ ipPc = "quotes" /\ Len(Gets) = 5
    /\ \A k \in 1..4 : Gets[k].reply = "redirect"
    /\ LastGet.reply = "page" /\ quotePageHtml = LastGet.body

JarSet(jar) == {jar[k] : k \in DOMAIN jar}
DistinctNames(jar) == \A i, j \in DOMAIN jar : i < j => jar[i].name # jar[j].name

SessionSet == \E c \in cookieLog.latest : c.name = "PHPSESSID"
FinalHtml == IF LastGet.reply = "page" THEN LastGet.body ELSE <<>>
HasToken(html) == \E k \in DOMAIN html : html[k].name = "csrf-token"
LoopOver == Gets # <<>> /\ ipPc # "bootstrap" /\ LastGet.reply # "none"

\* C20: after the redirect loop, a jar without a PHPSESSID cookie makes the
\* Interparcel client throw its session error, and a final page without a
\* csrf-token meta tag, the session being there, its CSRF-token error; in
\* both cases, and whenever the token is missing, the client has thrown
\* without issuing a single quote call and without returning any quote.
C20_NoSessionNoQuotes ==
    LoopOver
        => /\ ~SessionSet
                 => /\ Returned
                    /\ ipResult = Err("PHPSESSID not found in Interparcel response")
           /\ (SessionSet /\ ~HasToken(FinalHtml))
                 => /\ Returned
                    /\ ipResult = Err("Failed to obtain CSRF token from Interparcel")
           /\ (~SessionSet \/ ~HasToken(FinalHtml))
                 => /\ Returned /\ ~ipResult.ok /\ ipResult.value = <<>>
                    /\ QuoteCalls = <<>>

\* a session cookie on the first response, a page without the tag on the second
C20_Witness ==
    /\ LoopOver /\ Len(Gets) = 2 /\ SessionSet
    /\ LastGet.body = <<[name |-> "viewport", content |-> "width"]>>
    /\ Returned /\ ipResult = Err("Failed to obtain CSRF token from Interparcel")
    /\ QuoteCalls = <<>>

ListedInResponse == fetches[1].body
EitherCase(c, lower, upper) == c = lower \/ c = upper
NamesHunter(name) ==
    \E off \in 0..(Len(name) - 6) :
        /\ name[off + 1] = "H" /\ name[off + 2] = "u" /\ name[off + 3] = "n"
        /\ name[off + 4] = "t" /\ name[off + 5] = "e" /\ name[off + 6] = "r"
NamesB2B(name) ==
    \E off \in 0..(Len(name) - 3) :
        /\ EitherCase(name[off + 1], "b", "B")
        /\ name[off + 2] = "2"
        /\ EitherCase(name[off + 3], "b", "B")
ToBeQuoted(service) ==
    /\ ~NamesHunter(service.service)
    /\ input.b2b \/ ~NamesB2B(service.service)
IdsOf(s) == [k \in DOMAIN s |-> s[k].id]
TokenOf(html) ==
    {html[k].content : k \in {j \in DOMAIN html : html[j].name = "csrf-token"}}

\* C21: once the bootstrap has given a session and a token, the Interparcel
\* client has issued one quote call for each service of the availability
\* response whose name does not contain "Hunter" and, unless the request is
\* B2B, does not contain "b2b" in any letter case, in the order of the
\* response, and for no other service; a B2B request keeps the B2B-named
\* services; every call carries the cookies the bootstrap was given and the
\* token of its final page; before that no quote call is issued.
C21_FilteredCalls ==
    /\ (ipPc = "bootstrap") => (QuoteCalls = <<>>)
    /\ (ipPc = "quotes")
          => /\ IdsOf(QuoteCalls) = IdsOf(SelectSeq(ListedInResponse, ToBeQuoted))
             /\ requests = SelectSeq(ListedInResponse, ToBeQuoted)
    /\ \A k \in DOMAIN QuoteCalls :
          /\ ListedInResponse[QuoteCalls[k].id].id = QuoteCalls[k].id
          /\ ToBeQuoted(ListedInResponse[QuoteCalls[k].id])
          /\ JarSet(QuoteCalls[k].Cookie) = cookieLog.latest
          /\ DistinctNames(QuoteCalls[k].Cookie)
          /\ \E c \in cookieLog.latest : c.name = "PHPSESSID"
          /\ LastGet.reply = "page"
          /\ TokenOf(LastGet.body) = {QuoteCalls[k].xCsrfToken}

\* a request that is not B2B, a response listing "B2b" and "TNT": the one
\* call is for TNT, with the session the page set over the redirect's
C21_Witness ==
    /\ ipPc = "quotes" /\ ~input.b2b
    /\ Len(ListedInResponse) = 2
    /\ ListedInResponse[1].service = MixedB2BName
    /\ ListedInResponse[2].service = PlainName
    /\ Len(Gets) = 2
    /\ IdsOf(QuoteCalls) = <<2>>
    /\ QuoteCalls[1].Cookie = <<SessionOf(2)>>
    /\ QuoteCalls[1].xCsrfToken = "tok1"

DomesticOptions == IF postResult.ok THEN postResult.value ELSE <<>>
InterparcelOptions == IF ipResult.ok THEN ipResult.value ELSE <<>>
AdminPrefix == IF isAdmin THEN <<adminShippingOption>> ELSE <<>>
Assembled == AdminPrefix \o <<pickupShippingOption>> \o DomesticOptions \o InterparcelOptions

\* C22: for weight < 20 and destination AU, with all dimensions < 105 the
\* domestic AusPost client and then Interparcel are both attempted, whatever
\* the first one's outcome; a failure of either is swallowed and takes none
\* of the other's options away: the list returned is the pickup option, the
\* AusPost options, the Interparcel options, after the admin option for an
\* admin, cut to 4.  With a dimension >= 105 Interparcel alone is attempted
\* and the pickup option is in the list whatever its outcome.
C22_IndependentAttempts ==
    (~Heavy /\ Domestic)
        => /\ (SmallParcel /\ pc \in {"domIP", "done"})
                 => calls = <<"domestic", "interparcel">>
           /\ (SmallParcel /\ Done)
                 => /\ result.ok
                    /\ IsPrefix(result.value, Assembled)
                    /\ Len(result.value) = Smaller(Len(Assembled), 4)
           /\ ~SmallParcel => (\A k \in DOMAIN calls : calls[k] = "interparcel")
           /\ (~SmallParcel /\ Done)
                 => /\ calls = <<"interparcel">>
                    /\ postResult = None
                    /\ result.ok
                    /\ pickupShippingOption \in Range(result.value)
                    /\ IsPrefix(result.value, Assembled)

\* the domestic call failed, Interparcel was still called and its two quotes
\* follow the pickup option
C22_Witness ==
    /\ Done /\ ~Heavy /\ Domestic /\ SmallParcel /\ ~isAdmin
    /\ calls = <<"domestic", "interparcel">>
    /\ ~postResult.ok /\ ipResult.ok /\ Len(ipResult.value) = 2
    /\ result.value = <<pickupShippingOption>> \o ipResult.value

\* C23: the weight is tested first: for every request with weight >= 20,
\* the weight 20 included, whatever the destination and the dimensions,
\* Interparcel is the only client invoked, once; neither AusPost client is
\* called.
C23_HeavyInterparcelOnly ==
    Heavy
        => /\ \A k \in DOMAIN calls : calls[k] = "interparcel"
           /\ Len(calls) <= 1
           /\ pc \notin {"intlPost", "intlParse", "domPost", "domIP"}
           /\ data = NoData /\ postResult = None
           /\ Done => calls = <<"interparcel">>

\* weight 20, destination US and no dimension at the limit: Interparcel
\* alone was called and its quotes are returned
C23_Witness ==
    /\ Done /\ input.weight = 20 /\ ~Domestic /\ SmallParcel
    /\ calls = <<"interparcel">> /\ postResult = None
    /\ result.ok /\ ipResult.ok /\ ~isAdmin /\ result.value = ipResult.value

Oversized ==
    \/ input.length >= 105
    \/ input.width >= 105
    \/ input.height >= 105

\* C24: for weight < 20 and a destination other than AU, Interparcel is the
\* only client invoked when length, width or height is >= 105, the value 105
\* included, and the international AusPost client is the only one otherwise;
\* a failure of that one call is the failure of the request, with the
\* client's error, and no other client is tried.
C24_RequiredInternational ==
    (~Heavy /\ ~Domestic)
        => /\ Len(calls) <= 1
           /\ Oversized
                 => /\ \A k \in DOMAIN calls : calls[k] = "interparcel"
                    /\ postResult = None
                    /\ (Done /\ ~ipResult.ok)
                          => /\ ~result.ok /\ result.value = <<>>
                             /\ result.error = ipResult.error
           /\ ~Oversized
                 => /\ \A k \in DOMAIN calls : calls[k] = "international"
                    /\ ipPc = "idle"
                    /\ (Done /\ ~postResult.ok)
                          => /\ ~result.ok /\ result.value = <<>>
                             /\ result.error = postResult.error
           /\ Done => (Len(calls) = 1 /\ result.ok = (postResult.ok \/ ipResult.ok))

\* height 105 alone sends a light US request to Interparcel, whose failure
\* to quote ends the request
C24_Witness ==
    /\ Done /\ ~Heavy /\ ~Domestic
    /\ input.height = 105 /\ input.length < 105 /\ input.width < 105
    /\ calls = <<"interparcel">>
    /\ ~result.ok
    /\ result.error = "Unable to ship this item to the destination country"

\* C25, as stated: no returned list holds two options of the same
\* display_name, whatever the carriers return.
C25_DistinctDisplayNames ==
    (Done /\ result.ok)
        => \A i, j \in DOMAIN result.value :
               i < j => result.value[i].display_name # result.value[j].display_name

ClientErrors == {postResult.error, ipResult.error}

\* C26: a request with destination AU ends in a list, never in an error,
\* for every weight, every combination of dimensions and every failure of
\* the domestic AusPost client and of Interparcel.
C26_DomesticNeverThrows ==
    (Done /\ Domestic) => (result.ok /\ result.error = "")

\* the AusPost response lacked a tier and the Interparcel page carried no
\* token: the caller still gets the pickup option
C26_Witness ==
    /\ Done /\ Domestic /\ ~Heavy /\ SmallParcel /\ ~isAdmin
    /\ ClientErrors = {"Shipping not available",
                       "Failed to obtain CSRF token from Interparcel"}
    /\ result.ok /\ result.value = <<pickupShippingOption>>

Pickups(s) == {k \in DOMAIN s : s[k].display_name = "Pickup from Parted Euro"}

\* C27: a list returned for destination AU holds the pickup option, of
\* amount 0, exactly once, in every branch and after the cut to 4 with the
\* admin option prepended; a list returned for another destination never
\* holds it.
C27_PickupOnce ==
    (Done /\ result.ok)
        => /\ Domestic => Cardinality(Pickups(result.value)) = 1
           /\ ~Domestic => Pickups(result.value) = {}
           /\ \A k \in Pickups(result.value) : result.value[k].amount = 0

\* an admin's domestic list of seven options cut to four: the pickup option
\* is the second one
C27_Witness ==
    /\ Done /\ Domestic /\ ~Heavy /\ isAdmin
    /\ postResult.ok /\ ipResult.ok /\ Len(ipResult.value) = 3
    /\ Len(result.value) = 4
    /\ Pickups(result.value) = {2}

CallerIsAdmin == ctx.session # <<>> /\ ctx.session[1].user.isAdmin = TRUE
AdminOptions(s) == {k \in DOMAIN s : s[k].display_name = "Admin Shipping"}
RequiredClient == IF Heavy \/ Oversized THEN ipResult ELSE postResult
\* the list of the request's branch before the admin option: it is made of
\* the input and of what the clients returned, and of nothing of the caller
ListOfAnyCaller ==
    IF Heavy
    THEN InterparcelOptions \o (IF Domestic THEN <<pickupShippingOption>> ELSE <<>>)
    ELSE IF ~Domestic
    THEN RequiredClient.value
    ELSE <<pickupShippingOption>> \o DomesticOptions \o InterparcelOptions
CutIfDomestic(s) ==
    IF ~Heavy /\ Domestic /\ Len(s) > 4 THEN SubSeq(s, 1, 4) ELSE s

\* C28: the Admin Shipping option is in the returned list if and only if the
\* caller's session marks them admin: a caller with no session or whose
\* isAdmin is false never gets it, in any branch.  The list is that of any
\* caller for the same request and the same carrier answers, with the admin
\* option put in front for an admin and nothing else changed, except for
\* the elements the cut to 4 of the weight < 20 AU branch then drops; an
\* error is the same for every caller.
C28_AdminOnlyForAdmins ==
    /\ isAdmin = CallerIsAdmin
    /\ (Done /\ result.ok)
          => /\ CallerIsAdmin => AdminOptions(result.value) = {1}
             /\ ~CallerIsAdmin => AdminOptions(result.value) = {}
             /\ result.value
                  = CutIfDomestic((IF CallerIsAdmin THEN <<adminShippingOption>>
                                   ELSE <<>>) \o ListOfAnyCaller)
    /\ (Done /\ ~result.ok)
          => /\ result.value = <<>>
             /\ result.error = RequiredClient.error

\* a caller with no session gets pickup, both AusPost tiers and the first
\* Interparcel quote: the list an admin gets without its last element,
\* behind no admin option
C28_Witness ==
    /\ Done /\ ctx = NoSession /\ ~Heavy /\ Domestic
    /\ postResult.ok /\ ipResult.ok /\ Len(ipResult.value) = 2
    /\ Len(result.value) = 4
    /\ result.value = <<pickupShippingOption>> \o postResult.value
                          \o <<ipResult.value[1]>>
    /\ AdminOptions(result.value) = {}

Padded(params) ==
    /\ params.pkg01 = ToString(input.length + 30)
    /\ params.pkg02 = ToString(input.width + 30)
    /\ params.pkg03 = ToString(input.height + 10)
Unpadded(params) ==
    /\ params.pkg01 = ToString(input.length)
    /\ params.pkg02 = ToString(input.width)
    /\ params.pkg03 = ToString(input.height)

\* C29, as stated: the availability call of the Interparcel client is sent
\* with type "pallet" if and only if the dimensions it sends are the padded
\* ones (length + 30, width + 30, height + 10), and with type "parcel" if
\* and only if they are the unpadded ones, for every weight, 35 included.
C29_TypeMatchesPadding ==
    \A k \in DOMAIN AvailabilityCalls :
        /\ (AvailabilityCalls[k].params.type = "pallet")
              <=> Padded(AvailabilityCalls[k].params)
        /\ (AvailabilityCalls[k].params.type = "parcel")
              <=> Unpadded(AvailabilityCalls[k].params)

AllRedirects ==
    /\ Len(Gets) = 5
    /\ \A k \in DOMAIN Gets : Gets[k].reply = "redirect"
RedirectTokens ==
    UNION {TokenOf(Gets[k].body) : k \in {j \in DOMAIN Gets : Gets[j].reply = "redirect"}}

\* C30: when all 5 GETs of the bootstrap are answered by a redirect, the
\* loop is over without a final page and the Interparcel client has thrown,
\* its session error without a PHPSESSID cookie and its CSRF-token error
\* with one, and has issued no quote call; whenever quote calls are issued
\* the token is that of a page that was no redirect, never one a redirect
\* carried.
C30_RedirectsExhaust ==
    /\ Len(Gets) <= 5
    /\ AllRedirects
          => /\ Returned /\ ~ipResult.ok /\ ipResult.value = <<>>
             /\ ipResult.error = IF SessionSet
                                 THEN "Failed to obtain CSRF token from Interparcel"
                                 ELSE "PHPSESSID not found in Interparcel response"
             /\ QuoteCalls = <<>>
    /\ (ipPc = "quotes" \/ QuoteCalls # <<>>)
          => /\ LastGet.reply = "page"
             /\ (ipPc = "quotes")
                   => (csrfToken \in TokenOf(LastGet.body) /\ csrfToken \notin RedirectTokens)

\* five redirects, the session set on the way and a token in the body of
\* the fifth: the client has thrown the CSRF-token error
C30_Witness ==
    /\ AllRedirects /\ SessionSet
    /\ TokenOf(Gets[5].body) = {"tok1"}
    /\ Returned /\ ipResult = Err("Failed to obtain CSRF token from Interparcel")
    /\ QuoteCalls = <<>>

====
